---- MODULE Spec2Model ----
(***************************************************************************)
(* The resource reconcilers of terraform-provider-morpheus: the create,    *)
(* read, update and delete handlers of the workflow catalog item, the      *)
(* Ansible Tower integration and the helm spec template, run against a     *)
(* model of the remote appliance reached through the morpheus-go-sdk       *)
(* client.  One behaviour follows one resource instance of one kind.       *)
(***************************************************************************)
EXTENDS Integers, Sequences, FiniteSets, TLC

VARIABLES kind, d, remote, last

vars == <<kind, d, remote, last>>

(***************************************************************************)
(* Bounds of the model.                                                    *)
(***************************************************************************)
\* the largest identifier the remote service assigns
MaxId == 2

\* HTTP status of a not-found answer
StatusNotFound == 404

Kinds == {"catalog", "tower", "helm"}

\* What a remote call can come back with: an HTTP status, or 0 for a call
\* that got no response at all (a transport error: resp == nil).
Answers == {200, StatusNotFound, 500, 0}

DiagNone == "none"
DiagError == "error"

NoResult == [none |-> TRUE]

Empty == [x \in {} |-> x]

(***************************************************************************)
(* Strings that the code takes apart are sequences of characters.          *)
(***************************************************************************)
Original == <<"_", "o", "r", "i", "g", "i", "n", "a", "l">>

\* the first index at which sub occurs in s, 0 when it does not
IndexOf(s, sub) ==
    LET hits == {i \in 1..(Len(s) - Len(sub) + 1) : SubSeq(s, i, i + Len(sub) - 1) = sub}
    IN  IF hits = {} THEN 0 ELSE CHOOSE i \in hits : \A j \in hits : i <= j

\* strings.Replace(s, old, new, 1)
Replace1(s, old, new) ==
    LET i == IndexOf(s, old)
    IN  IF i = 0 THEN s
        ELSE SubSeq(s, 1, i - 1) \o new \o SubSeq(s, i + Len(old), Len(s))

\* the last element of strings.Split(s, "/")
LastSegment(s) ==
    LET cuts == {i \in 1..Len(s) : s[i] = "/"}
        from == IF cuts = {} THEN 0 ELSE CHOOSE i \in cuts : \A j \in cuts : j <= i
    IN  SubSeq(s, from + 1, Len(s))

\* a logo name that keeps the marker the appliance puts into the file name
LogoNameOfImagePathWhole(path) == LastSegment(path)

\* the name a logo is shown under, from the path the appliance stores it at
LogoNameOfImagePath(path) == Replace1(LastSegment(path), Original, <<>>)

(***************************************************************************)
(* Identifiers: decimal strings of the appliance's numeric IDs.            *)
(***************************************************************************)
Digit == <<"0", "1", "2", "3", "4", "5", "6", "7", "8", "9">>

RECURSIVE int64ToString(_)
int64ToString(n) ==
    IF n < 10 THEN Digit[n + 1] ELSE int64ToString(n \div 10) \o Digit[(n % 10) + 1]

intToString(n) == int64ToString(n)

\* the number a decimal string stands for, 0 for a string that is none
toInt64(s) ==
    LET ns == {n \in 0..(MaxId + 10) : int64ToString(n) = s}
    IN  IF ns = {} THEN 0 ELSE CHOOSE n \in ns : TRUE

(***************************************************************************)
(* The remote appliance as the client sees it.  rem.items maps the IDs of  *)
(* the entities it holds to the entities, rem.seq is the last ID it        *)
(* assigned.  The service is shared with other clients: a not-found answer *)
(* means the entity is absent when the call is served, whether it never    *)
(* was there or another client removed it just before.                     *)
(***************************************************************************)
Exists(rem, id) == id \in DOMAIN rem.items

Without(rem, id) ==
    [rem EXCEPT !.items = [i \in (DOMAIN rem.items) \ {id} |-> rem.items[i]]]

With(rem, id, entity) ==
    [rem EXCEPT !.items = [i \in (DOMAIN rem.items) \cup {id} |->
                              IF i = id THEN entity ELSE rem.items[i]]]

\* *morpheus.Response and the error returned beside it
Response(a, result) ==
    [isNil |-> a = 0, StatusCode |-> a, err |-> a /= 200, Result |-> result]

\* the answers the service can give to a call that addresses entity id
AnswersFor(rem, id) == IF Exists(rem, id) THEN Answers ELSE Answers \ {200}

Served(rem, id, a) == IF a = StatusNotFound THEN Without(rem, id) ELSE rem

\* an answer the service cannot give is dropped by the caller (possible is
\* FALSE); it is carried as a call without response so that no result is read
Given(a, possible) == IF possible THEN a ELSE 0

ClientGet(rem, id, a) ==
    LET ok == a \in AnswersFor(rem, id)
    IN  [resp   |-> Response(Given(a, ok), IF a = 200 /\ ok THEN rem.items[id] ELSE NoResult),
         remote |-> Served(rem, id, a),
         possible |-> ok]

Named(rem, name) == {i \in DOMAIN rem.items : rem.items[i].Name = name}

\* Find...ByName: the entity of that name; which one, when several carry the
\* name, is not defined, and a miss is answered with a failure of some kind.
ClientFind(rem, name, a, pick) ==
    LET ok == /\ a = 200 => pick \in Named(rem, name)
              /\ a = StatusNotFound => Named(rem, name) = {}
    IN  [resp   |-> Response(Given(a, ok), IF a = 200 /\ ok THEN rem.items[pick] ELSE NoResult),
         remote |-> rem,
         possible |-> ok]

ClientCreate(rem, entity, a) ==
    [resp   |-> Response(a, IF a = 200 THEN entity ELSE NoResult),
     remote |-> IF a = 200 THEN [With(rem, entity.ID, entity) EXCEPT !.seq = entity.ID]
                ELSE rem,
     possible |-> TRUE]

ClientUpdate(rem, id, entity, a) ==
    LET ok == a \in AnswersFor(rem, id)
    IN  [resp   |-> Response(Given(a, ok), IF a = 200 /\ ok THEN entity ELSE NoResult),
         remote |-> IF a = 200 /\ ok THEN With(rem, id, entity) ELSE Served(rem, id, a),
         possible |-> ok]

ClientDelete(rem, id, a) ==
    LET ok == a \in AnswersFor(rem, id)
    IN  [resp   |-> Response(Given(a, ok), NoResult),
         remote |-> IF a = 200 THEN Without(rem, id) ELSE Served(rem, id, a),
         possible |-> ok]

\* the not-found test with the wrong status code
IsNotFoundWrongStatus(resp) == ~resp.isNil /\ resp.StatusCode = 400

\* `resp != nil && resp.StatusCode == 404`
IsNotFound(resp) == ~resp.isNil /\ resp.StatusCode = StatusNotFound

\* what a handler leaves: the resource data, the diagnostics it returns, the
\* remote calls it issued in order, the remote service afterwards, and whether
\* the answers it was given are answers the service can give
Outcome(dd, diags, calls, rem, possible) ==
    [d |-> dd, diags |-> diags, calls |-> calls, remote |-> rem, possible |-> possible]

Call(fn, arg, a) == [fn |-> fn, arg |-> arg, status |-> a]

(***************************************************************************)
(* Workflow catalog item.                                                  *)
(***************************************************************************)
LogoName == <<"l", ".", "p">>
LogoPath == <<"i", "/", "l", ".", "p">>
DarkLogoName == <<"k", ".", "p">>
DarkLogoPath == <<"i", "/", "k", ".", "p">>

\* (path, name) pairs a configuration declares for the logo and the dark logo
LogoChoices == {<<(<<>>), (<<>>)>>, <<LogoPath, LogoName>>}
DarkLogoChoices == {<<(<<>>), (<<>>)>>, <<DarkLogoPath, DarkLogoName>>}

\* form_id conflicts with option_type_ids: a configuration sets one of them;
\* the configurations with a logo are the ones that set the form
FormChoice(lg) == IF lg[1] = <<>> THEN <<0, <<7>>>> ELSE <<5, (<<>>)>>

\* the schema's attributes with no value set
CatalogItemZero ==
    [id |-> "", name |-> "", labels |-> {}, description |-> "", category |-> "",
     enabled |-> TRUE, featured |-> FALSE, workflow_id |-> 0, context_type |-> "",
     content |-> "", option_type_ids |-> <<>>, logo_image_name |-> <<>>,
     logo_image_path |-> <<>>, dark_logo_image_name |-> <<>>,
     dark_logo_image_path |-> <<>>, visibility |-> "", form_id |-> 0]

\* the logo declarations of the configurations: no logo, a logo, or a logo and
\* a dark logo
LogoConfigs ==
    {p \in LogoChoices \X DarkLogoChoices : p[1][1] /= <<>> \/ p[2][1] = <<>>}

\* the configurations a user declares
CatalogItemDesired ==
    {[CatalogItemZero EXCEPT
        !.name = "a", !.labels = {"t"}, !.description = "about", !.category = "ops",
        !.workflow_id = 3, !.context_type = "instance", !.content = "text",
        !.visibility = "private", !.form_id = FormChoice(p[1])[1],
        !.option_type_ids = FormChoice(p[1])[2],
        !.logo_image_path = p[1][1], !.logo_image_name = p[1][2],
        !.dark_logo_image_path = p[2][1], !.dark_logo_image_name = p[2][2]]
     : p \in LogoConfigs}

\* a catalog item the appliance holds that this resource did not create
CatalogItemForeign(id, name) ==
    [ID |-> id, Name |-> name, Labels |-> {}, Description |-> "other", Category |-> "",
     Enabled |-> TRUE, Featured |-> FALSE, OptionTypes |-> <<>>, Content |-> "",
     Context |-> "", Visibility |-> "public", Form |-> [ID |-> 0],
     Workflow |-> [ID |-> 9], ImagePath |-> <<>>, DarkImagePath |-> <<>>]

\* the catalog item the appliance keeps for a request body; old is the entity
\* it replaces: the stored logos are not part of the body
StoreCatalogItem(id, body, old) ==
    [ID |-> id, Name |-> body.name, Labels |-> body.labels,
     Description |-> body.description, Category |-> body.category,
     Enabled |-> body.enabled, Featured |-> body.featured,
     OptionTypes |-> [i \in DOMAIN body.optionTypes |-> [id |-> body.optionTypes[i]]],
     Content |-> body.content, Context |-> body.context,
     Visibility |-> body.visibility,
     Form |-> [ID |-> IF "form" \in DOMAIN body THEN body.form.id ELSE 0],
     Workflow |-> [ID |-> body.workflow.id],
     ImagePath |-> old.ImagePath, DarkImagePath |-> old.DarkImagePath]

\* where the appliance stores an uploaded logo: <name>_original.<ext>
StoredImagePath(fileName) ==
    LET dots == {i \in 1..Len(fileName) : fileName[i] = "."}
        at == IF dots = {} THEN Len(fileName) + 1
              ELSE CHOOSE i \in dots : \A j \in dots : j <= i
    IN  <<"u", "/">> \o SubSeq(fileName, 1, at - 1) \o Original
            \o SubSeq(fileName, at, Len(fileName))

RECURSIVE StoreLogos(_, _)
StoreLogos(entity, files) ==
    IF files = <<>> THEN entity
    ELSE LET f == Head(files)
             e == IF f.ParameterName = "logo"
                  THEN [entity EXCEPT !.ImagePath = StoredImagePath(f.FileName)]
                  ELSE [entity EXCEPT !.DarkImagePath = StoredImagePath(f.FileName)]
         IN  StoreLogos(e, Tail(files))

CreateCatalogItem(rem, body, a) ==
    ClientCreate(rem, StoreCatalogItem(rem.seq + 1, body, CatalogItemForeign(0, "")), a)

UpdateCatalogItem(rem, id, body, a) ==
    ClientUpdate(rem, id,
                 IF Exists(rem, id) THEN StoreCatalogItem(id, body, rem.items[id])
                 ELSE NoResult, a)

UpdateCatalogItemLogo(rem, id, files, a) ==
    ClientUpdate(rem, id,
                 IF Exists(rem, id) THEN StoreLogos(rem.items[id], files) ELSE NoResult, a)

GetCatalogItem(rem, id, a) == ClientGet(rem, id, a)

FindCatalogItemByName(rem, name, a, pick) == ClientFind(rem, name, a, pick)

DeleteCatalogItem(rem, id, a) == ClientDelete(rem, id, a)

\* os.ReadFile(path) under the files fs that can be read during the call
ReadFile(fs, path) == [err |-> path \notin fs, data |-> path]

\* the catalogItem map both create and update build from the resource data
CatalogItemBody(dd) ==
    [name |-> dd.name, labels |-> dd.labels, description |-> dd.description,
     category |-> dd.category, enabled |-> dd.enabled, featured |-> dd.featured,
     type |-> "workflow", context |-> dd.context_type,
     optionTypes |-> dd.option_type_ids, content |-> dd.content,
     visibility |-> dd.visibility, workflow |-> [id |-> dd.workflow_id]]
    @@ (IF dd.form_id > 0
        THEN [formType |-> "form", form |-> [id |-> dd.form_id]]
        ELSE Empty)

CatalogItemCreateBody(dd) == CatalogItemBody(dd) @@ [iconPath |-> "custom"]

\* an update body that leaves the content out
CatalogItemUpdateBodyNoContent(dd) ==
    [k \in (DOMAIN CatalogItemBody(dd)) \ {"content"} |-> CatalogItemBody(dd)[k]]

CatalogItemUpdateBody(dd) == CatalogItemBody(dd)

\* resourceWorkflowCatalogItemRead from the response on: not-found clears the
\* identifier, another failure is an error, an entity is stored field by field
CatalogItemReadResponse(dd, c, call) ==
    IF c.resp.err
    THEN IF IsNotFound(c.resp)
         THEN Outcome([dd EXCEPT !.id = ""], DiagNone, <<call>>, c.remote, c.possible)
         ELSE Outcome(dd, DiagError, <<call>>, c.remote, c.possible)
    ELSE LET catalogItem == c.resp.Result
         IN  Outcome([dd EXCEPT
                        !.id = intToString(catalogItem.ID),
                        !.name = catalogItem.Name,
                        !.labels = catalogItem.Labels,
                        !.description = catalogItem.Description,
                        !.category = catalogItem.Category,
                        !.enabled = catalogItem.Enabled,
                        !.featured = catalogItem.Featured,
                        !.option_type_ids =
                            [i \in DOMAIN catalogItem.OptionTypes |->
                                catalogItem.OptionTypes[i].id],
                        !.content = catalogItem.Content,
                        !.context_type = catalogItem.Context,
                        !.visibility = catalogItem.Visibility,
                        !.form_id = catalogItem.Form.ID,
                        !.workflow_id = catalogItem.Workflow.ID,
                        !.logo_image_name = LogoNameOfImagePath(catalogItem.ImagePath),
                        !.dark_logo_image_name =
                            LogoNameOfImagePath(catalogItem.DarkImagePath)],
                     DiagNone, <<call>>, c.remote, c.possible)

\* o.a answers the lookup; o.pick is the entity a lookup by name finds
resourceWorkflowCatalogItemRead(dd, rem, o) ==
    LET id == dd.id
        name == dd.name
    IN  IF id = "" /\ name /= ""
        THEN CatalogItemReadResponse(dd, FindCatalogItemByName(rem, name, o.a, o.pick),
                                     Call("FindCatalogItemByName", name, o.a))
        ELSE IF id /= ""
        THEN CatalogItemReadResponse(dd, GetCatalogItem(rem, toInt64(id), o.a),
                                     Call("GetCatalogItem", toInt64(id), o.a))
        ELSE Outcome(dd, DiagError, <<>>, rem, TRUE)

\* a create that gives up when the logo upload fails
CatalogItemCreateFinishStrict(dd, c1, call1, files, o) ==
    LET catalogItemResult == c1.resp.Result
        c2 == UpdateCatalogItemLogo(c1.remote, catalogItemResult.ID, files, o.logo)
        call2 == Call("UpdateCatalogItemLogo", files, o.logo)
        r == resourceWorkflowCatalogItemRead(
                 [dd EXCEPT !.id = int64ToString(catalogItemResult.ID)], c2.remote, o.read)
    IN  IF c2.resp.err
        THEN Outcome(dd, DiagError, <<call1, call2>>, c2.remote, c1.possible /\ c2.possible)
        ELSE Outcome(r.d, DiagNone, <<call1, call2>> \o r.calls, r.remote,
                     c1.possible /\ c2.possible /\ r.possible)

\* resourceWorkflowCatalogItemCreate from the logo upload on
CatalogItemCreateFinish(dd, c1, call1, files, o) ==
    LET catalogItemResult == c1.resp.Result
        c2 == UpdateCatalogItemLogo(c1.remote, catalogItemResult.ID, files, o.logo)
        call2 == Call("UpdateCatalogItemLogo", files, o.logo)
        r == resourceWorkflowCatalogItemRead(
                 [dd EXCEPT !.id = int64ToString(catalogItemResult.ID)], c2.remote, o.read)
    IN  Outcome(r.d, DiagNone, <<call1, call2>> \o r.calls, r.remote,
                c1.possible /\ c2.possible /\ r.possible)

\* o.primary, o.logo and o.read answer the three remote calls, o.fs holds the
\* local files that can be read
resourceWorkflowCatalogItemCreate(dd, rem, o) ==
    LET body == CatalogItemCreateBody(dd)
        c1 == CreateCatalogItem(rem, body, o.primary)
        call1 == Call("CreateCatalogItem", body, o.primary)
        wantLogo == dd.logo_image_path /= <<>> /\ dd.logo_image_name /= <<>>
        wantDark == dd.dark_logo_image_path /= <<>> /\ dd.dark_logo_image_name /= <<>>
        logo == ReadFile(o.fs, dd.logo_image_path)
        dark == ReadFile(o.fs, dd.dark_logo_image_path)
        files ==
            (IF wantLogo
             THEN <<[ParameterName |-> "logo", FileName |-> dd.logo_image_name,
                     FileContent |-> logo.data]>>
             ELSE <<>>)
            \o (IF wantDark
                THEN <<[ParameterName |-> "darkLogo", FileName |-> dd.dark_logo_image_name,
                        FileContent |-> dark.data]>>
                ELSE <<>>)
    IN  IF c1.resp.err THEN Outcome(dd, DiagError, <<call1>>, c1.remote, c1.possible)
        ELSE IF wantLogo /\ logo.err
        THEN Outcome(dd, DiagError, <<call1>>, c1.remote, c1.possible)
        ELSE IF wantDark /\ dark.err
        THEN Outcome(dd, DiagError, <<call1>>, c1.remote, c1.possible)
        ELSE CatalogItemCreateFinish(dd, c1, call1, files, o)

\* d.HasChange(key): the planned value differs from the last observed one
HasChange(prior, dd, key) == prior[key] /= dd[key]

\* resourceWorkflowCatalogItemUpdate from the logo upload on
CatalogItemUpdateFinish(dd, c1, call1, files, o) ==
    LET catalogItemResult == c1.resp.Result
        c2 == UpdateCatalogItemLogo(c1.remote, catalogItemResult.ID, files, o.logo)
        call2 == Call("UpdateCatalogItemLogo", files, o.logo)
        r == resourceWorkflowCatalogItemRead(
                 [dd EXCEPT !.id = int64ToString(catalogItemResult.ID)], c2.remote, o.read)
    IN  Outcome(r.d, r.diags, <<call1, call2>> \o r.calls, r.remote,
                c1.possible /\ c2.possible /\ r.possible)

\* a change test that looks at the path alone
CatalogItemChangedLogoPathOnly(prior, dd) == HasChange(prior, dd, "logo_image_path")

\* the logo files update uploads: those whose path or name changed
CatalogItemChangedLogo(prior, dd) ==
    HasChange(prior, dd, "logo_image_path") \/ HasChange(prior, dd, "logo_image_name")

CatalogItemChangedDarkLogo(prior, dd) ==
    HasChange(prior, dd, "dark_logo_image_path")
        \/ HasChange(prior, dd, "dark_logo_image_name")

\* prior is the last observed state, dd the planned one under the same id
resourceWorkflowCatalogItemUpdate(prior, dd, rem, o) ==
    LET id == dd.id
        body == CatalogItemUpdateBody(dd)
        c1 == UpdateCatalogItem(rem, toInt64(id), body, o.primary)
        call1 == Call("UpdateCatalogItem", body, o.primary)
        wantLogo == CatalogItemChangedLogo(prior, dd)
        wantDark == CatalogItemChangedDarkLogo(prior, dd)
        logo == ReadFile(o.fs, dd.logo_image_path)
        dark == ReadFile(o.fs, dd.dark_logo_image_path)
        files ==
            (IF wantLogo
             THEN <<[ParameterName |-> "logo", FileName |-> dd.logo_image_name,
                     FileContent |-> logo.data]>>
             ELSE <<>>)
            \o (IF wantDark
                THEN <<[ParameterName |-> "darkLogo", FileName |-> dd.dark_logo_image_name,
                        FileContent |-> dark.data]>>
                ELSE <<>>)
    IN  IF c1.resp.err THEN Outcome(dd, DiagError, <<call1>>, c1.remote, c1.possible)
        ELSE IF wantLogo /\ logo.err
        THEN Outcome(dd, DiagError, <<call1>>, c1.remote, c1.possible)
        ELSE IF wantDark /\ dark.err
        THEN Outcome(dd, DiagError, <<call1>>, c1.remote, c1.possible)
        ELSE CatalogItemUpdateFinish(dd, c1, call1, files, o)

\* a delete that takes not-found for done, as the helm spec template's does
CatalogItemDeleteNotFoundOk(dd, rem, o) ==
    LET id == dd.id
        c == DeleteCatalogItem(rem, toInt64(id), o.a)
        call == Call("DeleteCatalogItem", toInt64(id), o.a)
    IN  IF c.resp.err
        THEN IF IsNotFound(c.resp)
             THEN Outcome(dd, DiagNone, <<call>>, c.remote, c.possible)
             ELSE Outcome(dd, DiagError, <<call>>, c.remote, c.possible)
        ELSE Outcome([dd EXCEPT !.id = ""], DiagNone, <<call>>, c.remote, c.possible)

resourceWorkflowCatalogItemDelete(dd, rem, o) ==
    LET id == dd.id
        c == DeleteCatalogItem(rem, toInt64(id), o.a)
        call == Call("DeleteCatalogItem", toInt64(id), o.a)
    IN  IF c.resp.err
        THEN IF IsNotFound(c.resp)
             THEN Outcome(dd, DiagError, <<call>>, c.remote, c.possible)
             ELSE Outcome(dd, DiagError, <<call>>, c.remote, c.possible)
        ELSE Outcome([dd EXCEPT !.id = ""], DiagNone, <<call>>, c.remote, c.possible)

(***************************************************************************)
(* Ansible Tower integration.                                              *)
(***************************************************************************)
\* Secrets and digests are sequences of characters, so that letter case can be
\* told character by character.

\* hex.EncodeToString(sha256(s)) for the plaintexts that occur; any other input
\* has a digest that none of them has
SHA256Hex(s) ==
    CASE s = <<"p">> ->
            <<"1", "4", "8", "d", "e", "9", "c", "5", "a", "7", "a", "4", "4", "d", "1", "9",
              "e", "5", "6", "c", "d", "9", "a", "e", "1", "a", "5", "5", "4", "b", "f", "6",
              "7", "8", "4", "7", "a", "f", "b", "0", "c", "5", "8", "f", "6", "e", "1", "2",
              "f", "a", "2", "9", "a", "c", "7", "d", "d", "f", "c", "a", "9", "9", "4", "0">>
      [] s = <<"q">> ->
            <<"8", "e", "3", "5", "c", "2", "c", "d", "3", "b", "f", "6", "6", "4", "1", "b",
              "d", "b", "0", "e", "2", "0", "5", "0", "b", "7", "6", "9", "3", "2", "c", "b",
              "b", "2", "e", "6", "0", "3", "4", "a", "0", "d", "d", "a", "c", "c", "1", "d",
              "9", "b", "e", "a", "8", "2", "a", "6", "b", "a", "5", "7", "f", "7", "c", "f">>
      [] s = <<"p", "q">> ->
            <<"c", "e", "4", "e", "9", "a", "0", "d", "a", "d", "1", "e", "e", "d", "8", "d",
              "6", "9", "c", "7", "1", "3", "6", "9", "2", "a", "7", "4", "9", "e", "6", "b",
              "6", "c", "4", "8", "6", "f", "7", "9", "1", "5", "6", "e", "c", "a", "3", "c",
              "2", "e", "9", "a", "e", "6", "d", "b", "2", "2", "b", "6", "3", "3", "e", "6">>
      [] s = <<>> ->
            <<"e", "3", "b", "0", "c", "4", "4", "2", "9", "8", "f", "c", "1", "c", "1", "4",
              "9", "a", "f", "b", "f", "4", "c", "8", "9", "9", "6", "f", "b", "9", "2", "4",
              "2", "7", "a", "e", "4", "1", "e", "4", "6", "4", "9", "b", "9", "3", "4", "c",
              "a", "4", "9", "5", "9", "9", "1", "b", "7", "8", "5", "2", "b", "8", "5", "5">>
      [] OTHER ->
            [i \in 1..64 |-> "0"]

\* the plaintext secrets a configuration may hold
Plaintexts == {<<>>, <<"p">>, <<"q">>, <<"p", "q">>}

\* the passwords of the declared configurations
Passwords == {<<"p">>, <<"q">>}

UpperChar(c) ==
    CASE c = "a" -> "A" [] c = "b" -> "B" [] c = "c" -> "C" [] c = "d" -> "D"
      [] c = "e" -> "E" [] c = "f" -> "F" [] c = "p" -> "P" [] c = "q" -> "Q"
      [] OTHER -> c

LowerChar(c) ==
    CASE c = "A" -> "a" [] c = "B" -> "b" [] c = "C" -> "c" [] c = "D" -> "d"
      [] c = "E" -> "e" [] c = "F" -> "f" [] c = "P" -> "p" [] c = "Q" -> "q"
      [] OTHER -> c

\* a digest as an appliance that prints hex in capitals reports it
UpperHex(s) == [i \in DOMAIN s |-> UpperChar(s[i])]

ToLower(s) == [i \in DOMAIN s |-> LowerChar(s[i])]

\* strings.EqualFold
EqualFold(s, t) == ToLower(s) = ToLower(t)

\* a diff-suppression that compares the digest letter for letter
PasswordDiffSuppressExact(old, new) == old = SHA256Hex(new)

\* DiffSuppressFunc of password: old is the stored value, new the configured one
PasswordDiffSuppress(old, new) == EqualFold(old, SHA256Hex(new))

AnsibleTowerIntegrationZero ==
    [id |-> "", name |-> "", enabled |-> FALSE, url |-> "", username |-> "",
     password |-> <<>>, credential_id |-> 0]

\* the configurations a user declares: inline credentials or a credential
\* reference (username and password conflict with credential_id)
AnsibleTowerIntegrationDesired ==
    {[AnsibleTowerIntegrationZero EXCEPT
        !.name = "a", !.enabled = TRUE, !.url = "https://tower",
        !.username = "u", !.password = pw] : pw \in Passwords}
    \cup {[AnsibleTowerIntegrationZero EXCEPT
             !.name = "a", !.enabled = TRUE, !.url = "https://tower",
             !.credential_id = 4]}

\* what a user may write: the declared configurations, one that sets neither
\* inline credentials nor a credential reference, and one that sets both
AnsibleTowerIntegrationConfigs ==
    AnsibleTowerIntegrationDesired
        \cup {[AnsibleTowerIntegrationZero EXCEPT
                 !.name = "a", !.enabled = TRUE, !.url = "https://tower"],
              [AnsibleTowerIntegrationZero EXCEPT
                 !.name = "a", !.enabled = TRUE, !.url = "https://tower",
                 !.username = "u", !.password = <<"p">>, !.credential_id = 4]}

\* schema validation: username and password conflict with credential_id
AnsibleTowerIntegrationValid(config) ==
    ~(config.credential_id /= 0 /\ (config.username /= "" \/ config.password /= <<>>))

AnsibleTowerIntegrationForeign(id, name) ==
    [ID |-> id, Name |-> name, Enabled |-> FALSE, URL |-> "https://other",
     Username |-> "w", PasswordHash |-> SHA256Hex(<<"q">>), Credential |-> [ID |-> 0]]

\* the integration the appliance keeps for a request body; what the body does
\* not carry stays as it was in old
StoreIntegration(id, body, old) ==
    [ID |-> id, Name |-> body.name, Enabled |-> body.enabled, URL |-> body.serviceUrl,
     Username |-> IF "serviceUsername" \in DOMAIN body
                  THEN body.serviceUsername ELSE old.Username,
     PasswordHash |-> IF "servicePassword" \in DOMAIN body
                      THEN SHA256Hex(body.servicePassword) ELSE old.PasswordHash,
     Credential |-> [ID |-> IF "credential" \in DOMAIN body
                            THEN (IF "id" \in DOMAIN body.credential
                                  THEN body.credential.id ELSE 0)
                            ELSE old.Credential.ID]]

IntegrationBlank ==
    [ID |-> 0, Name |-> "", Enabled |-> FALSE, URL |-> "", Username |-> "",
     PasswordHash |-> <<>>, Credential |-> [ID |-> 0]]

CreateIntegration(rem, body, a) ==
    ClientCreate(rem, StoreIntegration(rem.seq + 1, body, IntegrationBlank), a)

UpdateIntegration(rem, id, body, a) ==
    ClientUpdate(rem, id,
                 IF Exists(rem, id) THEN StoreIntegration(id, body, rem.items[id])
                 ELSE NoResult, a)

GetIntegration(rem, id, a) == ClientGet(rem, id, a)

FindIntegrationByName(rem, name, a, pick) == ClientFind(rem, name, a, pick)

DeleteIntegration(rem, id, a) == ClientDelete(rem, id, a)

\* the integration map create builds.  With a credential reference the
\* credential map is assigned into itself, not into the integration map, so
\* the integration map gets no credential key.
AnsibleTowerIntegrationCreateBody(dd) ==
    [name |-> dd.name, enabled |-> dd.enabled, type |-> "ansibleTower",
     serviceVersion |-> "v2", serviceUrl |-> dd.url]
    @@ (IF dd.credential_id /= 0
        THEN Empty
        ELSE [credential |-> [type |-> "local"], serviceUsername |-> dd.username,
              servicePassword |-> dd.password])

\* the integration map update builds
AnsibleTowerIntegrationUpdateBody(prior, dd) ==
    [name |-> dd.name, enabled |-> dd.enabled, type |-> "ansibleTower",
     serviceVersion |-> "v2", serviceUrl |-> dd.url]
    @@ (IF dd.credential_id /= 0
        THEN [credential |-> [type |-> "username-password", id |-> dd.credential_id]]
        ELSE [credential |-> [type |-> "local"]]
             @@ (IF HasChange(prior, dd, "username")
                 THEN [serviceUsername |-> dd.username] ELSE Empty)
             @@ (IF HasChange(prior, dd, "password")
                 THEN [servicePassword |-> dd.password] ELSE Empty))

\* resourceAnsibleTowerIntegrationRead from the response on
AnsibleTowerIntegrationReadResponse(dd, c, call) ==
    IF c.resp.err
    THEN IF IsNotFound(c.resp)
         THEN Outcome([dd EXCEPT !.id = ""], DiagNone, <<call>>, c.remote, c.possible)
         ELSE Outcome(dd, DiagError, <<call>>, c.remote, c.possible)
    ELSE LET integration == c.resp.Result
             d1 == [dd EXCEPT !.id = int64ToString(integration.ID),
                              !.name = integration.Name,
                              !.enabled = integration.Enabled,
                              !.url = integration.URL]
         IN  Outcome(IF integration.Credential.ID = 0
                     THEN [d1 EXCEPT !.username = integration.Username,
                                     !.password = integration.PasswordHash]
                     ELSE [d1 EXCEPT !.credential_id = integration.Credential.ID],
                     DiagNone, <<call>>, c.remote, c.possible)

resourceAnsibleTowerIntegrationRead(dd, rem, o) ==
    LET id == dd.id
        name == dd.name
    IN  IF id = "" /\ name /= ""
        THEN AnsibleTowerIntegrationReadResponse(
                 dd, FindIntegrationByName(rem, name, o.a, o.pick),
                 Call("FindIntegrationByName", name, o.a))
        ELSE IF id /= ""
        THEN AnsibleTowerIntegrationReadResponse(
                 dd, GetIntegration(rem, toInt64(id), o.a),
                 Call("GetIntegration", toInt64(id), o.a))
        ELSE Outcome(dd, DiagError, <<>>, rem, TRUE)

resourceAnsibleTowerIntegrationCreate(dd, rem, o) ==
    LET body == AnsibleTowerIntegrationCreateBody(dd)
        c1 == CreateIntegration(rem, body, o.primary)
        call1 == Call("CreateIntegration", body, o.primary)
    IN  IF c1.resp.err THEN Outcome(dd, DiagError, <<call1>>, c1.remote, c1.possible)
        ELSE LET integrationResult == c1.resp.Result
                 r == resourceAnsibleTowerIntegrationRead(
                          [dd EXCEPT !.id = int64ToString(integrationResult.ID)],
                          c1.remote, o.read)
             IN  Outcome(r.d, DiagNone, <<call1>> \o r.calls, r.remote,
                         c1.possible /\ r.possible)

\* an update that drops the identifier when the remote update fails
AnsibleTowerIntegrationUpdateDroppingId(prior, dd, rem, o) ==
    LET id == dd.id
        body == AnsibleTowerIntegrationUpdateBody(prior, dd)
        c1 == UpdateIntegration(rem, toInt64(id), body, o.primary)
        call1 == Call("UpdateIntegration", body, o.primary)
    IN  IF c1.resp.err
        THEN Outcome([dd EXCEPT !.id = ""], DiagError, <<call1>>, c1.remote, c1.possible)
        ELSE LET integrationResult == c1.resp.Result
                 r == resourceAnsibleTowerIntegrationRead(
                          [dd EXCEPT !.id = int64ToString(integrationResult.ID)],
                          c1.remote, o.read)
             IN  Outcome(r.d, r.diags, <<call1>> \o r.calls, r.remote,
                         c1.possible /\ r.possible)

resourceAnsibleTowerIntegrationUpdate(prior, dd, rem, o) ==
    LET id == dd.id
        body == AnsibleTowerIntegrationUpdateBody(prior, dd)
        c1 == UpdateIntegration(rem, toInt64(id), body, o.primary)
        call1 == Call("UpdateIntegration", body, o.primary)
    IN  IF c1.resp.err THEN Outcome(dd, DiagError, <<call1>>, c1.remote, c1.possible)
        ELSE LET integrationResult == c1.resp.Result
                 r == resourceAnsibleTowerIntegrationRead(
                          [dd EXCEPT !.id = int64ToString(integrationResult.ID)],
                          c1.remote, o.read)
             IN  Outcome(r.d, r.diags, <<call1>> \o r.calls, r.remote,
                         c1.possible /\ r.possible)

resourceAnsibleTowerIntegrationDelete(dd, rem, o) ==
    LET id == dd.id
        c == DeleteIntegration(rem, toInt64(id), o.a)
        call == Call("DeleteIntegration", toInt64(id), o.a)
    IN  IF c.resp.err
        THEN IF IsNotFound(c.resp)
             THEN Outcome(dd, DiagError, <<call>>, c.remote, c.possible)
             ELSE Outcome(dd, DiagError, <<call>>, c.remote, c.possible)
        ELSE Outcome([dd EXCEPT !.id = ""], DiagNone, <<call>>, c.remote, c.possible)

(***************************************************************************)
(* Helm spec template.                                                     *)
(***************************************************************************)
HelmSpecTemplateZero ==
    [id |-> "", name |-> "", source_type |-> "", spec_content |-> "", spec_path |-> "",
     repository_id |-> 0, version_ref |-> ""]

\* the configurations a user declares: one per source type, and a local one
\* that also keeps a version_ref
HelmSpecTemplateDesired ==
    {[HelmSpecTemplateZero EXCEPT
        !.name = "a", !.source_type = "local", !.spec_content = "replicas: 1"],
     [HelmSpecTemplateZero EXCEPT
        !.name = "a", !.source_type = "local", !.spec_content = "replicas: 1",
        !.version_ref = "main"],
     [HelmSpecTemplateZero EXCEPT
        !.name = "a", !.source_type = "url", !.spec_path = "https://charts/app.yaml"],
     [HelmSpecTemplateZero EXCEPT
        !.name = "a", !.source_type = "repository", !.spec_path = "charts/app",
        !.repository_id = 5, !.version_ref = "main"]}

HelmSpecTemplateForeign(id, name) ==
    [ID |-> id, Name |-> name,
     File |-> [Sourcetype |-> "url", Contentref |-> "", Contentpath |-> "https://other",
               Repository |-> [ID |-> 0], Content |-> ""]]

\* the names under which an appliance reports a source type it was sent: a
\* repository source comes back as it was sent or as "git"
ReportedSourceTypes(sent) == IF sent = "repository" THEN {"repository", "git"} ELSE {sent}

\* the spec template the appliance keeps for a request body
StoreSpecTemplate(id, body, reported) ==
    LET file == body.specTemplate.file
    IN  [ID |-> id, Name |-> body.specTemplate.name,
         File |-> [Sourcetype |-> reported,
                   Contentref |-> IF "contentRef" \in DOMAIN file THEN file.contentRef ELSE "",
                   Contentpath |->
                       IF "contentPath" \in DOMAIN file THEN file.contentPath ELSE "",
                   Repository |->
                       [ID |-> IF "repository" \in DOMAIN file THEN file.repository.id ELSE 0],
                   Content |-> IF "content" \in DOMAIN file THEN file.content ELSE ""]]

CreateSpecTemplate(rem, body, reported, a) ==
    ClientCreate(rem, StoreSpecTemplate(rem.seq + 1, body, reported), a)

UpdateSpecTemplate(rem, id, body, reported, a) ==
    ClientUpdate(rem, id, StoreSpecTemplate(id, body, reported), a)

GetSpecTemplate(rem, id, a) == ClientGet(rem, id, a)

FindSpecTemplateByName(rem, name, a, pick) == ClientFind(rem, name, a, pick)

DeleteSpecTemplate(rem, id, a) == ClientDelete(rem, id, a)

\* source options that carry the inline content for every source type
HelmSpecTemplateSourceOptionsWithContent(dd) ==
    [sourceType |-> dd.source_type, content |-> dd.spec_content,
     contentPath |-> dd.spec_path]
    @@ (IF dd.source_type = "repository"
        THEN [contentRef |-> dd.version_ref, repository |-> [id |-> dd.repository_id]]
        ELSE Empty)

\* the sourceOptions map create and update build
HelmSpecTemplateSourceOptions(dd) ==
    [sourceType |-> dd.source_type]
    @@ (CASE dd.source_type = "local" ->
                [content |-> dd.spec_content, contentPath |-> dd.spec_path]
          [] dd.source_type = "url" ->
                [content |-> dd.spec_content, contentPath |-> dd.spec_path]
          [] dd.source_type = "repository" ->
                [contentPath |-> dd.spec_path, contentRef |-> dd.version_ref,
                 repository |-> [id |-> dd.repository_id]]
          [] OTHER -> Empty)

HelmSpecTemplateBody(dd) ==
    [specTemplate |-> [name |-> dd.name, file |-> HelmSpecTemplateSourceOptions(dd),
                       type |-> [code |-> "helm"]]]

\* resourceHelmSpecTemplateRead from the response on; o.json tells whether
\* the response body unmarshals
HelmSpecTemplateReadResponse(dd, c, call, o) ==
    IF c.resp.err
    THEN IF IsNotFound(c.resp)
         THEN Outcome([dd EXCEPT !.id = ""], DiagNone, <<call>>, c.remote, c.possible)
         ELSE Outcome(dd, DiagError, <<call>>, c.remote, c.possible)
    ELSE IF ~o.json THEN Outcome(dd, DiagError, <<call>>, c.remote, c.possible)
    ELSE LET Spectemplate == c.resp.Result
             d1 == [dd EXCEPT !.id = intToString(Spectemplate.ID),
                              !.name = Spectemplate.Name,
                              !.source_type = Spectemplate.File.Sourcetype]
         IN  Outcome(CASE Spectemplate.File.Sourcetype = "local" ->
                            [d1 EXCEPT !.source_type = "local",
                                       !.spec_content = Spectemplate.File.Content]
                       [] Spectemplate.File.Sourcetype = "url" ->
                            [d1 EXCEPT !.source_type = "url",
                                       !.spec_path = Spectemplate.File.Contentpath]
                       [] Spectemplate.File.Sourcetype = "git" ->
                            [d1 EXCEPT !.source_type = "repository",
                                       !.spec_path = Spectemplate.File.Contentpath,
                                       !.repository_id = Spectemplate.File.Repository.ID,
                                       !.version_ref = Spectemplate.File.Contentref]
                       [] OTHER -> d1,
                     DiagNone, <<call>>, c.remote, c.possible)

\* a read that looks up by name whenever there is a name
HelmSpecTemplateReadNameFirst(dd, rem, o) ==
    LET id == dd.id
        name == dd.name
    IN  IF name /= ""
        THEN HelmSpecTemplateReadResponse(
                 dd, FindSpecTemplateByName(rem, name, o.a, o.pick),
                 Call("FindSpecTemplateByName", name, o.a), o)
        ELSE IF id /= ""
        THEN HelmSpecTemplateReadResponse(
                 dd, GetSpecTemplate(rem, toInt64(id), o.a),
                 Call("GetSpecTemplate", toInt64(id), o.a), o)
        ELSE Outcome(dd, DiagError, <<>>, rem, TRUE)

resourceHelmSpecTemplateRead(dd, rem, o) ==
    LET id == dd.id
        name == dd.name
    IN  IF id = "" /\ name /= ""
        THEN HelmSpecTemplateReadResponse(
                 dd, FindSpecTemplateByName(rem, name, o.a, o.pick),
                 Call("FindSpecTemplateByName", name, o.a), o)
        ELSE IF id /= ""
        THEN HelmSpecTemplateReadResponse(
                 dd, GetSpecTemplate(rem, toInt64(id), o.a),
                 Call("GetSpecTemplate", toInt64(id), o.a), o)
        ELSE Outcome(dd, DiagError, <<>>, rem, TRUE)

\* a create that issues the remote create call again when it failed
HelmSpecTemplateCreateRetrying(dd, rem, o) ==
    LET body == HelmSpecTemplateBody(dd)
        c1 == CreateSpecTemplate(rem, body, o.reported, o.primary)
        call1 == Call("CreateSpecTemplate", body, o.primary)
    IN  IF c1.resp.err
        THEN Outcome(dd, DiagError, <<call1, call1>>, c1.remote, c1.possible)
        ELSE LET specTemplate == c1.resp.Result
                 r == resourceHelmSpecTemplateRead(
                          [dd EXCEPT !.id = int64ToString(specTemplate.ID)],
                          c1.remote, o.read)
             IN  Outcome(r.d, DiagNone, <<call1>> \o r.calls, r.remote,
                         c1.possible /\ r.possible)

resourceHelmSpecTemplateCreate(dd, rem, o) ==
    LET body == HelmSpecTemplateBody(dd)
        c1 == CreateSpecTemplate(rem, body, o.reported, o.primary)
        call1 == Call("CreateSpecTemplate", body, o.primary)
    IN  IF c1.resp.err THEN Outcome(dd, DiagError, <<call1>>, c1.remote, c1.possible)
        ELSE LET specTemplate == c1.resp.Result
                 r == resourceHelmSpecTemplateRead(
                          [dd EXCEPT !.id = int64ToString(specTemplate.ID)],
                          c1.remote, o.read)
             IN  Outcome(r.d, DiagNone, <<call1>> \o r.calls, r.remote,
                         c1.possible /\ r.possible)

resourceHelmSpecTemplateUpdate(dd, rem, o) ==
    LET id == dd.id
        body == HelmSpecTemplateBody(dd)
        c1 == UpdateSpecTemplate(rem, toInt64(id), body, o.reported, o.primary)
        call1 == Call("UpdateSpecTemplate", body, o.primary)
    IN  IF c1.resp.err THEN Outcome(dd, DiagError, <<call1>>, c1.remote, c1.possible)
        ELSE LET specTemplate == c1.resp.Result
                 r == resourceHelmSpecTemplateRead(
                          [dd EXCEPT !.id = int64ToString(specTemplate.ID)],
                          c1.remote, o.read)
             IN  Outcome(r.d, r.diags, <<call1>> \o r.calls, r.remote,
                         c1.possible /\ r.possible)

resourceHelmSpecTemplateDelete(dd, rem, o) ==
    LET id == dd.id
        c == DeleteSpecTemplate(rem, toInt64(id), o.a)
        call == Call("DeleteSpecTemplate", toInt64(id), o.a)
    IN  IF c.resp.err
        THEN IF IsNotFound(c.resp)
             THEN Outcome(dd, DiagNone, <<call>>, c.remote, c.possible)
             ELSE Outcome(dd, DiagError, <<call>>, c.remote, c.possible)
        ELSE Outcome([dd EXCEPT !.id = ""], DiagNone, <<call>>, c.remote, c.possible)

(***************************************************************************)
(* The host runtime: it invokes the handlers of one resource, one call at  *)
(* a time, and keeps the resource data each call leaves.  last records the *)
(* call just made: the handler, the identifier it started from, the        *)
(* planned state it was given (desired), the remote calls it issued in     *)
(* order with what they carried and how they were answered, the            *)
(* diagnostics it returned, and, when the call before it was a delete that *)
(* returned no error, the identifier that delete started from (deleted).   *)
(***************************************************************************)
\* The answers drawn for the remote calls of one handler call.  pick is the
\* entity a lookup by name comes back with, drawn only for a lookup that
\* succeeds.  A call whose response the handler never looks into (it only
\* tests err) is drawn a failure with a response; the answers to the calls
\* after a failed primary call are not drawn, as those calls are never issued.
LookupOracles == {[a |-> a, pick |-> 1, json |-> TRUE] : a \in Answers}

ReadOracles ==
    LookupOracles \cup {[a |-> 200, pick |-> p, json |-> TRUE] : p \in 1..MaxId}

\* a spec template's response body may fail to unmarshal
HelmReadOracles == ReadOracles \cup {[a |-> 200, pick |-> 1, json |-> FALSE]}

Unasked == [a |-> 0, pick |-> 1, json |-> TRUE]

WriteAnswers == Answers \ {0}

\* the answers to the read that ends a create or an update
InnerReadOracles == {o \in LookupOracles : o.a /= 500}

CatalogItemWriteOracles(dd) ==
    {[primary |-> a, logo |-> 0, read |-> Unasked, fs |-> {}] : a \in WriteAnswers \ {200}}
        \cup [primary : {200}, logo : {200, 500}, read : InnerReadOracles,
              fs : SUBSET ({dd.logo_image_path, dd.dark_logo_image_path} \ {<<>>})]

AnsibleTowerIntegrationWriteOracles ==
    {[primary |-> a, read |-> Unasked] : a \in WriteAnswers \ {200}}
        \cup [primary : {200}, read : InnerReadOracles]

HelmSpecTemplateWriteOracles(dd) ==
    {[primary |-> a, read |-> Unasked, reported |-> dd.source_type]
        : a \in WriteAnswers \ {200}}
        \cup [primary : {200},
              read : InnerReadOracles \cup {[a |-> 200, pick |-> 1, json |-> FALSE]},
              reported : ReportedSourceTypes(dd.source_type)]

\* the resource data of a resource nothing is known of yet
Zero(k) ==
    CASE k = "catalog" -> CatalogItemZero
      [] k = "tower" -> AnsibleTowerIntegrationZero
      [] k = "helm" -> HelmSpecTemplateZero

Foreign(k, id, name) ==
    CASE k = "catalog" -> CatalogItemForeign(id, name)
      [] k = "tower" -> AnsibleTowerIntegrationForeign(id, name)
      [] k = "helm" -> HelmSpecTemplateForeign(id, name)

\* the appliance before the resource's first call: empty, or holding one
\* entity that another client created
InitialRemotes(k) ==
    {[items |-> Empty, seq |-> 0], [items |-> [i \in {1} |-> Foreign(k, 1, "a")], seq |-> 1]}

Record(op, desired, r) ==
    [op |-> op, idBefore |-> d.id, desired |-> desired, calls |-> r.calls,
     diags |-> r.diags,
     deleted |-> IF last.op = "delete" /\ last.diags = DiagNone THEN last.idBefore ELSE ""]

Init ==
    /\ kind \in Kinds
    /\ d = Zero(kind)
    /\ remote \in InitialRemotes(kind)
    /\ last = [op |-> "init", idBefore |-> "", desired |-> Empty, calls |-> <<>>,
               diags |-> DiagNone, deleted |-> ""]

Finish(op, desired, r) ==
    /\ r.possible
    /\ d' = r.d
    /\ remote' = r.remote
    /\ last' = Record(op, desired, r)
    /\ UNCHANGED kind

\* The planned state of an update: the configuration under the known
\* identifier, in which an attribute that the schema declares Optional and
\* Computed and that the configuration leaves unset keeps its last observed
\* value.
Plan(prior, config, zero, computed) ==
    [k \in DOMAIN config |->
        IF k = "id" \/ (k \in computed /\ config[k] = zero[k]) THEN prior[k] ELSE config[k]]

CatalogItemPlan(prior, config) ==
    Plan(prior, config, CatalogItemZero,
         {"labels", "description", "category", "featured", "context_type", "content",
          "option_type_ids", "logo_image_name", "logo_image_path",
          "dark_logo_image_name", "dark_logo_image_path"})

HelmSpecTemplatePlan(prior, config) == Plan(prior, config, HelmSpecTemplateZero, {})

\* a password whose difference from the stored value is suppressed keeps the
\* stored value too
AnsibleTowerIntegrationPlan(prior, config) ==
    LET planned == Plan(prior, config, AnsibleTowerIntegrationZero,
                        {"enabled", "credential_id"})
    IN  [planned EXCEPT
            !.password = IF PasswordDiffSuppress(prior.password, config.password)
                         THEN prior.password ELSE config.password]

\* terraform apply of a resource that has no identifier yet
WorkflowCatalogItemCreate ==
    /\ kind = "catalog"
    /\ d.id = ""
    /\ remote.seq < MaxId
    /\ \E desired \in CatalogItemDesired : \E o \in CatalogItemWriteOracles(desired) :
          Finish("create", desired,
                 resourceWorkflowCatalogItemCreate(desired, remote, o))

\* refresh
WorkflowCatalogItemRead ==
    /\ kind = "catalog"
    /\ \E o \in ReadOracles :
          Finish("read", Empty, resourceWorkflowCatalogItemRead(d, remote, o))

\* terraform import: the identifier is seeded from the given string, then read
WorkflowCatalogItemImport ==
    /\ kind = "catalog"
    /\ d.id = ""
    /\ \E n \in 1..MaxId : \E o \in LookupOracles :
          LET seeded == [CatalogItemZero EXCEPT !.id = int64ToString(n)]
          IN  Finish("import", Empty,
                     resourceWorkflowCatalogItemRead(seeded, remote, o))

\* terraform apply of a changed configuration of a resource that has an identifier
WorkflowCatalogItemUpdate ==
    /\ kind = "catalog"
    /\ d.id /= ""
    /\ \E config \in CatalogItemDesired : \E o \in CatalogItemWriteOracles(config) :
          LET planned == CatalogItemPlan(d, config)
          IN  Finish("update", planned,
                     resourceWorkflowCatalogItemUpdate(d, planned, remote, o))

\* terraform destroy
WorkflowCatalogItemDelete ==
    /\ kind = "catalog"
    /\ d.id /= ""
    /\ \E o \in LookupOracles :
          Finish("delete", Empty, resourceWorkflowCatalogItemDelete(d, remote, o))

\* terraform validate of a configuration the schema rejects: no handler runs
AnsibleTowerIntegrationValidate ==
    /\ kind = "tower"
    /\ \E config \in AnsibleTowerIntegrationConfigs :
          /\ ~AnsibleTowerIntegrationValid(config)
          /\ last' = [op |-> "validate", idBefore |-> d.id, desired |-> config,
                      calls |-> <<>>, diags |-> DiagError, deleted |-> ""]
    /\ UNCHANGED <<kind, d, remote>>

AnsibleTowerIntegrationCreate ==
    /\ kind = "tower"
    /\ d.id = ""
    /\ remote.seq < MaxId
    /\ \E desired \in {c \in AnsibleTowerIntegrationConfigs :
                            AnsibleTowerIntegrationValid(c)} :
       \E o \in AnsibleTowerIntegrationWriteOracles :
          Finish("create", desired,
                 resourceAnsibleTowerIntegrationCreate(desired, remote, o))

AnsibleTowerIntegrationRead ==
    /\ kind = "tower"
    /\ \E o \in ReadOracles :
          Finish("read", Empty, resourceAnsibleTowerIntegrationRead(d, remote, o))

AnsibleTowerIntegrationImport ==
    /\ kind = "tower"
    /\ d.id = ""
    /\ \E n \in 1..MaxId : \E o \in LookupOracles :
          LET seeded == [AnsibleTowerIntegrationZero EXCEPT !.id = int64ToString(n)]
          IN  Finish("import", Empty,
                     resourceAnsibleTowerIntegrationRead(seeded, remote, o))

AnsibleTowerIntegrationUpdate ==
    /\ kind = "tower"
    /\ d.id /= ""
    /\ \E config \in {c \in AnsibleTowerIntegrationConfigs :
                           AnsibleTowerIntegrationValid(c)} :
       \E o \in AnsibleTowerIntegrationWriteOracles :
          LET planned == AnsibleTowerIntegrationPlan(d, config)
          IN  Finish("update", planned,
                     resourceAnsibleTowerIntegrationUpdate(d, planned, remote, o))

AnsibleTowerIntegrationDelete ==
    /\ kind = "tower"
    /\ d.id /= ""
    /\ \E o \in LookupOracles :
          Finish("delete", Empty, resourceAnsibleTowerIntegrationDelete(d, remote, o))

HelmSpecTemplateCreate ==
    /\ kind = "helm"
    /\ d.id = ""
    /\ remote.seq < MaxId
    /\ \E desired \in HelmSpecTemplateDesired :
       \E o \in HelmSpecTemplateWriteOracles(desired) :
          Finish("create", desired, resourceHelmSpecTemplateCreate(desired, remote, o))

HelmSpecTemplateRead ==
    /\ kind = "helm"
    /\ \E o \in HelmReadOracles :
          Finish("read", Empty, resourceHelmSpecTemplateRead(d, remote, o))

HelmSpecTemplateImport ==
    /\ kind = "helm"
    /\ d.id = ""
    /\ \E n \in 1..MaxId : \E o \in HelmReadOracles :
          LET seeded == [HelmSpecTemplateZero EXCEPT !.id = int64ToString(n)]
          IN  Finish("import", Empty, resourceHelmSpecTemplateRead(seeded, remote, o))

HelmSpecTemplateUpdate ==
    /\ kind = "helm"
    /\ d.id /= ""
    /\ \E config \in HelmSpecTemplateDesired :
       \E o \in HelmSpecTemplateWriteOracles(config) :
          LET planned == HelmSpecTemplatePlan(d, config)
          IN  Finish("update", planned,
                     resourceHelmSpecTemplateUpdate(planned, remote, o))

HelmSpecTemplateDelete ==
    /\ kind = "helm"
    /\ d.id /= ""
    /\ \E o \in LookupOracles :
          Finish("delete", Empty, resourceHelmSpecTemplateDelete(d, remote, o))

Next ==
    \/ WorkflowCatalogItemCreate
    \/ WorkflowCatalogItemRead
    \/ WorkflowCatalogItemImport
    \/ WorkflowCatalogItemUpdate
    \/ WorkflowCatalogItemDelete
    \/ AnsibleTowerIntegrationValidate
    \/ AnsibleTowerIntegrationCreate
    \/ AnsibleTowerIntegrationRead
    \/ AnsibleTowerIntegrationImport
    \/ AnsibleTowerIntegrationUpdate
    \/ AnsibleTowerIntegrationDelete
    \/ HelmSpecTemplateCreate
    \/ HelmSpecTemplateRead
    \/ HelmSpecTemplateImport
    \/ HelmSpecTemplateUpdate
    \/ HelmSpecTemplateDelete

Spec == Init /\ [][Next]_vars

(***************************************************************************)
(* The password diff-suppression on its own: the host calls it with the    *)
(* stored value and the configured one when it plans a change.             *)
(***************************************************************************)
\* a digest as an appliance that capitalises every other letter reports it
MixedHex(s) == [i \in DOMAIN s |-> IF i % 2 = 1 THEN UpperChar(s[i]) ELSE s[i]]

\* what the state may hold for password: the appliance's PasswordHash as read
\* stored it, in the letter case the appliance prints, or the plaintext a
\* create left
StoredPasswords ==
    Plaintexts
        \cup {SHA256Hex(w) : w \in Plaintexts}
        \cup {UpperHex(SHA256Hex(w)) : w \in Plaintexts}
        \cup {MixedHex(SHA256Hex(w)) : w \in Plaintexts}

InitDiffSuppress ==
    /\ kind = "tower"
    /\ remote = [items |-> <<>>, seq |-> 0]
    /\ \E old \in StoredPasswords :
          d = [AnsibleTowerIntegrationZero EXCEPT
                 !.id = "1", !.name = "a", !.enabled = TRUE, !.url = "https://tower",
                 !.username = "u", !.password = old]
    /\ \E new \in Plaintexts :
          last = [op |-> "config",
                  config |-> [AnsibleTowerIntegrationZero EXCEPT
                                !.name = "a", !.enabled = TRUE, !.url = "https://tower",
                                !.username = "u", !.password = new]]

\* the host plans a change of the configured integration
PasswordDiff ==
    /\ last.op = "config"
    /\ last' = [op |-> "diff",
                config |-> last.config,
                suppressed |-> PasswordDiffSuppress(d.password, last.config.password),
                planned |-> AnsibleTowerIntegrationPlan(d, last.config)]
    /\ UNCHANGED <<kind, d, remote>>

NextDiffSuppress == PasswordDiff

SpecDiffSuppress == InitDiffSuppress /\ [][NextDiffSuppress]_vars

(***************************************************************************)
(* Properties.                                                             *)
(***************************************************************************)
GetFns == {"GetCatalogItem", "GetIntegration", "GetSpecTemplate"}
FindFns == {"FindCatalogItemByName", "FindIntegrationByName", "FindSpecTemplateByName"}
CreateFns == {"CreateCatalogItem", "CreateIntegration", "CreateSpecTemplate"}
UpdateFns == {"UpdateCatalogItem", "UpdateIntegration", "UpdateSpecTemplate"}
DeleteFns == {"DeleteCatalogItem", "DeleteIntegration", "DeleteSpecTemplate"}
LookupFns == GetFns \cup FindFns

Failed(c) == c.status /= 200

CallsTo(calls, fns) == {i \in DOMAIN calls : calls[i].fn \in fns}

\* C1: for every resource kind, a read whose lookup is answered 404 returns
\* no error diagnostic and leaves the identifier empty.
C1_ReadNotFoundIsAbsent ==
    (last.op \in {"read", "import"} /\ last.calls /= <<>>
        /\ last.calls[1].status = StatusNotFound)
    => (last.diags = DiagNone /\ d.id = "")

\* a read of a resource that held an identifier was answered 404
C1_Witness ==
    /\ kind = "tower"
    /\ last.op = "read"
    /\ last.idBefore /= ""
    /\ last.calls /= <<>>
    /\ last.calls[1].fn = "GetIntegration"
    /\ last.calls[1].status = StatusNotFound
    /\ d.id = ""

\* C2: for every resource kind, read chooses its lookup from the identifier
\* and the name it starts with: with an identifier, one get by that
\* identifier; with no identifier and a name, one find by that name; with
\* neither, an error diagnostic and no remote call.
C2_ReadSelectsLookup ==
    [][last'.op = "read" =>
        /\ d.id /= "" =>
              /\ Len(last'.calls) = 1
              /\ last'.calls[1].fn \in GetFns
              /\ last'.calls[1].arg = toInt64(d.id)
        /\ (d.id = "" /\ d.name /= "") =>
              /\ Len(last'.calls) = 1
              /\ last'.calls[1].fn \in FindFns
              /\ last'.calls[1].arg = d.name
        /\ (d.id = "" /\ d.name = "") =>
              /\ last'.calls = <<>>
              /\ last'.diags = DiagError]_vars

\* a read that started with a name and an identifier looked up by identifier
C2_Witness ==
    /\ kind = "helm"
    /\ last.op = "read"
    /\ last.idBefore /= ""
    /\ d.name /= ""
    /\ Len(last.calls) = 1
    /\ last.calls[1].fn = "GetSpecTemplate"
    /\ last.calls[1].status = 200

\* C3: for every resource kind, a create whose remote create call fails
\* returns an error diagnostic, leaves the identifier empty and issues no
\* further remote call; every create issues the remote create call once.
C3_CreateFailureStops ==
    last.op = "create" =>
        /\ Cardinality(CallsTo(last.calls, CreateFns)) = 1
        /\ last.calls[1].fn \in CreateFns
        /\ Failed(last.calls[1]) =>
              /\ last.diags = DiagError
              /\ d.id = ""
              /\ Len(last.calls) = 1

\* a create whose remote create call failed
C3_Witness ==
    /\ kind = "helm"
    /\ last.op = "create"
    /\ last.calls[1].fn = "CreateSpecTemplate"
    /\ last.calls[1].status = 500
    /\ last.diags = DiagError

\* C4: in every lifecycle call of every resource kind, a remote failure other
\* than a not-found on read and a failed attachment upload ends the call
\* with an error diagnostic; so a create whose follow-up read fails returns
\* an error.
C4_RemoteFailureIsError ==
    (\E i \in DOMAIN last.calls :
        /\ Failed(last.calls[i])
        /\ ~(last.calls[i].fn \in LookupFns /\ last.calls[i].status = StatusNotFound)
        /\ last.calls[i].fn /= "UpdateCatalogItemLogo")
    => last.diags = DiagError

\* C5: in workflow catalog item create and update, a failed logo upload after
\* a successful primary call does not fail the call: the follow-up read is
\* issued for the identifier the primary call returned, and an error
\* diagnostic is returned only by an update whose follow-up read failed.
C5_UploadFailureTolerated ==
    (/\ kind = "catalog"
     /\ last.op \in {"create", "update"}
     /\ Len(last.calls) >= 2
     /\ last.calls[2].fn = "UpdateCatalogItemLogo"
     /\ Failed(last.calls[2]))
    => /\ Len(last.calls) = 3
       /\ last.calls[3].fn = "GetCatalogItem"
       /\ last.op = "update" => last.calls[3].arg = toInt64(last.idBefore)
       /\ last.op = "create" => last.calls[3].arg = remote.seq
       /\ last.calls[3].status = 200 => d.id = int64ToString(last.calls[3].arg)
       /\ last.diags = DiagError
            <=> (last.op = "update" /\ last.calls[3].status \notin {200, StatusNotFound})

\* a create whose logo upload failed and that ended with the identifier set
C5_Witness ==
    /\ kind = "catalog"
    /\ last.op = "create"
    /\ Len(last.calls) = 3
    /\ last.calls[2].fn = "UpdateCatalogItemLogo"
    /\ last.calls[2].arg /= <<>>
    /\ last.calls[2].status = 500
    /\ last.diags = DiagNone
    /\ d.id /= ""

\* the body holds `key` with this value
Has(body, key, value) == key \in DOMAIN body /\ body[key] = value

\* the attributes of the desired state that C6 expects in every update body
SentEveryAttribute(body, want) ==
    CASE kind = "catalog" ->
            /\ Has(body, "name", want.name)
            /\ Has(body, "labels", want.labels)
            /\ Has(body, "description", want.description)
            /\ Has(body, "category", want.category)
            /\ Has(body, "enabled", want.enabled)
            /\ Has(body, "featured", want.featured)
            /\ Has(body, "context", want.context_type)
            /\ Has(body, "content", want.content)
            /\ Has(body, "optionTypes", want.option_type_ids)
            /\ Has(body, "visibility", want.visibility)
            /\ Has(body, "workflow", [id |-> want.workflow_id])
            /\ want.form_id /= 0 => Has(body, "form", [id |-> want.form_id])
      [] kind = "tower" ->
            /\ Has(body, "name", want.name)
            /\ Has(body, "enabled", want.enabled)
            /\ Has(body, "serviceUrl", want.url)
            /\ want.credential_id /= 0 =>
                  ("credential" \in DOMAIN body
                      /\ Has(body.credential, "id", want.credential_id))
            /\ want.credential_id = 0 =>
                  /\ Has(body, "serviceUsername", want.username)
                  /\ Has(body, "servicePassword", want.password)
      [] kind = "helm" ->
            LET file == body.specTemplate.file
            IN  /\ Has(body.specTemplate, "name", want.name)
                /\ Has(file, "sourceType", want.source_type)
                /\ want.spec_content /= "" => Has(file, "content", want.spec_content)
                /\ want.spec_path /= "" => Has(file, "contentPath", want.spec_path)
                /\ want.version_ref /= "" => Has(file, "contentRef", want.version_ref)
                /\ want.repository_id /= 0 =>
                      Has(file, "repository", [id |-> want.repository_id])

SentWhen(body, key, present, value) ==
    /\ (key \in DOMAIN body) <=> present
    /\ present => body[key] = value

HasFile(files, parameterName) ==
    \E i \in DOMAIN files : files[i].ParameterName = parameterName

Differs(prior, want, keys) == \E k \in keys : prior[k] /= want[k]

LogoKeys == {"logo_image_path", "logo_image_name"}
DarkLogoKeys == {"dark_logo_image_path", "dark_logo_image_name"}
UploadFns == {"UpdateCatalogItemLogo"}

\* C7 as stated: a catalog item update uploads the logo (the dark logo) if and
\* only if its path or name differs between the desired and the last observed
\* state, and makes no upload call when neither attachment changed.
C7_UploadIffChanged ==
    [][(kind = "catalog" /\ last'.op = "update") =>
        LET calls == last'.calls
            up == CallsTo(calls, UploadFns)
            logoChanged == Differs(d, last'.desired, LogoKeys)
            darkChanged == Differs(d, last'.desired, DarkLogoKeys)
        IN  /\ (\E i \in up : HasFile(calls[i].arg, "logo")) <=> logoChanged
            /\ (\E i \in up : HasFile(calls[i].arg, "darkLogo")) <=> darkChanged
            /\ (~logoChanged /\ ~darkChanged) => up = {}
    ]_vars

\* C7 amended: a catalog item update makes at most one upload call, only after
\* the primary update succeeded; the files of that call are the logo if and
\* only if its path or name differs between the desired and the last observed
\* state, and the dark logo likewise, so the call is made with no file when
\* neither changed; an update whose primary call succeeded makes no upload call
\* only when a changed attachment's file cannot be read, and then returns an
\* error.
C7_UploadCarriesChanged ==
    [][(kind = "catalog" /\ last'.op = "update") =>
        LET calls == last'.calls
            up == CallsTo(calls, UploadFns)
            logoChanged == Differs(d, last'.desired, LogoKeys)
            darkChanged == Differs(d, last'.desired, DarkLogoKeys)
        IN  /\ up \subseteq {2}
            /\ Failed(calls[1]) => up = {}
            /\ \A i \in up :
                  /\ HasFile(calls[i].arg, "logo") <=> logoChanged
                  /\ HasFile(calls[i].arg, "darkLogo") <=> darkChanged
                  /\ Len(calls[i].arg) = (IF logoChanged THEN 1 ELSE 0)
                                            + (IF darkChanged THEN 1 ELSE 0)
            /\ (~Failed(calls[1]) /\ up = {}) =>
                  /\ logoChanged \/ darkChanged
                  /\ last'.diags = DiagError
                  /\ Len(calls) = 1
    ]_vars

\* an update that changed no attachment and still made the upload call
C7_Witness ==
    /\ kind = "catalog"
    /\ last.op = "update"
    /\ Len(last.calls) >= 2
    /\ last.calls[2].fn \in UploadFns
    /\ last.calls[2].arg = <<>>

\* C8 as stated: for every resource kind, the identifier held after an update
\* called with identifier I is I, whether the update succeeded or failed.
C8_UpdateKeepsId == last.op = "update" => d.id = last.idBefore

\* C8 amended: the identifier held after an update called with identifier I is
\* I, whether the update succeeded or failed, except when the remote update
\* succeeded and the read that follows it is answered 404: then update returns
\* no error and the identifier is empty.
C8_UpdateKeepsIdUnlessGone ==
    last.op = "update" =>
        LET n == Len(last.calls)
        IN  \/ d.id = last.idBefore
            \/ /\ d.id = ""
               /\ n >= 2
               /\ ~Failed(last.calls[1])
               /\ last.calls[n].fn \in GetFns
               /\ last.calls[n].arg = toInt64(last.idBefore)
               /\ last.calls[n].status = StatusNotFound
               /\ last.diags = DiagNone

\* an update that the appliance accepted and that left the identifier empty
C8_Witness ==
    /\ last.op = "update"
    /\ last.idBefore /= ""
    /\ ~Failed(last.calls[1])
    /\ d.id = ""

\* C9: a delete answered 404 returns no diagnostic for the helm spec template
\* and an error, with the identifier unchanged, for the catalog item and the
\* Ansible Tower integration; for every kind any other failure of the remote
\* delete returns an error and leaves the identifier unchanged, and a
\* successful remote delete clears the identifier.
C9_DeleteNotFoundPolicy ==
    last.op = "delete" =>
        LET c == last.calls[1]
        IN  /\ Len(last.calls) = 1
            /\ c.fn \in DeleteFns
            /\ c.arg = toInt64(last.idBefore)
            /\ c.status = 200 => (last.diags = DiagNone /\ d.id = "")
            /\ (c.status = StatusNotFound /\ kind = "helm") => last.diags = DiagNone
            /\ (c.status = StatusNotFound /\ kind /= "helm") =>
                  (last.diags = DiagError /\ d.id = last.idBefore)
            /\ c.status \notin {200, StatusNotFound} =>
                  (last.diags = DiagError /\ d.id = last.idBefore)

\* a helm spec template delete answered 404 that returned no diagnostic
C9_Witness ==
    /\ kind = "helm"
    /\ last.op = "delete"
    /\ last.calls[1].status = StatusNotFound
    /\ last.diags = DiagNone

\* C10 as stated: after a delete of the entity with identifier I returned
\* success, a read against an appliance that no longer holds the entity and
\* answers the read returns no error and leaves the identifier empty.
C10_ReadAfterDeleteIsAbsent ==
    (/\ last.op = "read"
     /\ last.deleted /= ""
     /\ ~Exists(remote, toInt64(last.deleted))
     /\ \A i \in DOMAIN last.calls : last.calls[i].status \in {200, StatusNotFound})
        => (last.diags = DiagNone /\ d.id = "")

\* the two values are equal up to the case of their letters
SameIgnoringCase(s, t) ==
    /\ Len(s) = Len(t)
    /\ \A i \in DOMAIN s :
          s[i] = t[i] \/ UpperChar(s[i]) = t[i] \/ s[i] = UpperChar(t[i])

\* C11: the password diff-suppression says "no drift" exactly when the stored
\* value equals, ignoring letter case, the hex SHA-256 digest of the configured
\* plaintext; for a stored digest of S, configuring S suppresses the diff and
\* configuring any other plaintext does not.
C11_DiffSuppressedIffDigest ==
    last.op = "diff" =>
        /\ last.suppressed
              <=> SameIgnoringCase(d.password, SHA256Hex(last.config.password))
        /\ \A S \in Plaintexts :
              d.password = SHA256Hex(S) => (last.suppressed <=> last.config.password = S)
        /\ last.planned.password
              = (IF last.suppressed THEN d.password ELSE last.config.password)

\* a stored digest printed in capitals whose plaintext is configured again:
\* no drift
C11_Witness ==
    /\ last.op = "diff"
    /\ last.suppressed
    /\ last.config.password = <<"p">>
    /\ d.password = UpperHex(SHA256Hex(<<"p">>))
    /\ d.password /= SHA256Hex(<<"p">>)

\* the configuration sets inline credentials
SetsInline(config) == config.username /= "" \/ config.password /= <<>>

\* the configuration sets a credential reference
SetsReference(config) == config.credential_id /= 0

\* C12 as stated: validation rejects, before any remote call, every Ansible
\* Tower configuration that sets both the credential reference and inline
\* credentials and every one that sets neither, so a configuration that
\* reaches create sets exactly one of the two.
C12_ExactlyOneCredentialGroup ==
    /\ (kind = "tower" /\ last.op = "validate") =>
          (last.calls = <<>> /\ last.diags = DiagError)
    /\ (kind = "tower" /\ last.op = "create") =>
          (SetsInline(last.desired) /= SetsReference(last.desired))

\* a create whose remote calls, the follow-up read included, all succeeded
CreateRoundTrip == last.op = "create" /\ \A i \in DOMAIN last.calls : ~Failed(last.calls[i])

\* the user-settable attributes: all but the computed identifier
Settable(X) == DOMAIN X \ {"id"}

\* C13 as stated: for every resource kind, after a create of the desired state
\* X that succeeded against an appliance that stores what it is sent, the
\* observed state read back has every user-settable attribute equal to X's.
C13_RoundTripEqual ==
    (/\ CreateRoundTrip
     /\ kind = "tower" => last.desired \in AnsibleTowerIntegrationDesired)
        => \A k \in Settable(last.desired) : d[k] = last.desired[k]

\* C13 amended: after such a create, the state the follow-up read leaves has
\* every user-settable attribute equal to X's, except the password of an
\* Ansible Tower integration with inline credentials, which is the hex SHA-256
\* digest the appliance reports for X's password.
C13_RoundTripUpToDigest ==
    CreateRoundTrip =>
        \A k \in Settable(last.desired) :
            IF kind = "tower" /\ k = "password" /\ last.desired.credential_id = 0
            THEN d[k] = SHA256Hex(last.desired[k])
            ELSE d[k] = last.desired[k]

\* an integration created with an inline password and read back with its digest
C13_Witness ==
    /\ kind = "tower"
    /\ CreateRoundTrip
    /\ Len(last.calls) = 2
    /\ last.desired.password = <<"p">>
    /\ d.password = SHA256Hex(<<"p">>)
    /\ d.username = "u"

\* the lookup answered with the entity asked for
Answered == [a |-> 200, pick |-> 1, json |-> TRUE]

\* what a read of the entity with the identifier held leaves when it starts
\* from resource data that holds nothing but the identifier
ReadFromNothing ==
    CASE kind = "catalog" ->
            resourceWorkflowCatalogItemRead(
                [CatalogItemZero EXCEPT !.id = d.id], remote, Answered).d
      [] kind = "tower" ->
            resourceAnsibleTowerIntegrationRead(
                [AnsibleTowerIntegrationZero EXCEPT !.id = d.id], remote, Answered).d
      [] kind = "helm" ->
            resourceHelmSpecTemplateRead(
                [HelmSpecTemplateZero EXCEPT !.id = d.id], remote, Answered).d

\* the attributes that name local files, which no remote entity holds
LocalFileKeys == {"logo_image_path", "dark_logo_image_path"}

\* C14 as stated: the observed state a successful read leaves is a function of
\* the remote entity alone, so it is the state a read of the same entity leaves
\* whatever the local attribute values it started from (the paths of local
\* files set aside).
C14_ReadIsFunctionOfRemote ==
    (/\ last.op = "read"
     /\ last.idBefore /= ""
     /\ last.diags = DiagNone
     /\ d.id /= ""
     /\ Exists(remote, toInt64(d.id)))
        => \A k \in (DOMAIN d) \ LocalFileKeys : d[k] = ReadFromNothing[k]

\* C15: for a helm spec template whose source_type is "repository", the file
\* object of the create and of the update request holds contentPath equal to
\* spec_path, contentRef equal to version_ref and repository.id equal to
\* repository_id, and no content key; a content key is in the file object only
\* for the source types "local" and "url".
C15_RepositoryPayload ==
    (kind = "helm" /\ last.op \in {"create", "update"}) =>
        LET file == last.calls[1].arg.specTemplate.file
            X == last.desired
        IN  /\ last.calls[1].fn \in CreateFns \cup UpdateFns
            /\ X.source_type = "repository" =>
                  /\ Has(file, "contentPath", X.spec_path)
                  /\ Has(file, "contentRef", X.version_ref)
                  /\ Has(file, "repository", [id |-> X.repository_id])
                  /\ "content" \notin DOMAIN file
            /\ "content" \in DOMAIN file => X.source_type \in {"local", "url"}

\* the request of an update to the repository source of charts/app at main
C15_Witness ==
    /\ kind = "helm"
    /\ last.op = "update"
    /\ last.desired.source_type = "repository"
    /\ last.calls[1].arg.specTemplate.file
          = [sourceType |-> "repository", contentPath |-> "charts/app",
             contentRef |-> "main", repository |-> [id |-> 5]]

\* C16 as stated: whenever credential_id is not zero, the integration object
\* that create sends holds the credential sub-object of type
\* "username-password" with that id, as update's does, and no inline
\* serviceUsername or servicePassword.
C16_CreateSendsCredential ==
    (kind = "tower" /\ last.op = "create" /\ last.desired.credential_id /= 0) =>
        LET integration == last.calls[1].arg
        IN  /\ Has(integration, "credential",
                   AnsibleTowerIntegrationUpdateBody(last.desired, last.desired).credential)
            /\ integration.credential
                  = [type |-> "username-password", id |-> last.desired.credential_id]
            /\ "serviceUsername" \notin DOMAIN integration
            /\ "servicePassword" \notin DOMAIN integration

\* C17 as stated: a catalog item create or update that returns an error
\* diagnostic has applied nothing: its CreateCatalogItem or UpdateCatalogItem
\* did not succeed and the remote system is as it was before the call, also
\* when a local logo file cannot be read.
C17_ErrorAppliesNothing ==
    [][(kind = "catalog" /\ last'.op \in {"create", "update"} /\ last'.diags = DiagError) =>
          /\ remote' = remote
          /\ \A i \in 1..Len(last'.calls) :
                last'.calls[i].fn \in {"CreateCatalogItem", "UpdateCatalogItem"}
                    => last'.calls[i].status /= 200]_vars

====
